---- MODULE Spec2Model ----
(***************************************************************************)
(* A model of internship_watcher_github.py (class InternshipWatcher).      *)
(*                                                                         *)
(* Text is a sequence of lexical tokens.  A token is one character the     *)
(* code inspects ("|", "#", "<", ">", "[", "]", "(", ")", "*", "/", ",",   *)
(* "_", " ", "\n") or an atomic word ("Acme", "br", "Company", "---", a    *)
(* heading title, the arrow glyph).  The texts the code searches for       *)
(* ("Company", "Role", "---", "</br>", "##") are spelled by these tokens   *)
(* only, except "Role", which three heading titles also contain (see       *)
(* is_header_row), so substring tests, splits and regular expressions over *)
(* tokens behave as the Python code does over characters.  Heading titles  *)
(* stand in heading lines only, never in a table cell.                     *)
(***************************************************************************)
EXTENDS Integers, Sequences, FiniteSets, TLC

VARIABLES
    ct,     \* _clean_text in progress: [raw, text, step]
    ps,     \* _parse_table_section loop: [lines, i, in_table, current_company, internships, ...]
    dp,     \* parse_internships in progress: [content, step, internships, sections]
    idp,    \* two records built from two rows: [a, b, built]
    pc,                     \* position inside check_for_new_internships
    content,                \* local content
    current_internships,    \* local current_internships
    previous_ids,           \* local previous_ids
    new_internships,        \* local new_internships
    data_file,              \* the file previous_internships.json
    run,                    \* what the run in progress did so far
    last,                   \* what the last finished run did
    last_saved,             \* what the most recent successful save wrote
    runs                    \* number of runs started

vars == <<ct, ps, dp, idp, pc, content, current_internships, previous_ids,
          new_internships, data_file, run, last, last_saved, runs>>

----------------------------------------------------------------------------
(* Helpers on token sequences *)

\* The least j >= i with s[j] = c, or 0 when there is none (str.find).
FirstAt(s, c, i) ==
    IF \E j \in i..Len(s) : s[j] = c
    THEN CHOOSE j \in i..Len(s) : s[j] = c /\ \A k \in i..(j-1) : s[k] # c
    ELSE 0

\* Whether pattern p occurs in s at position i.
MatchAt(s, p, i) ==
    /\ i >= 1
    /\ i + Len(p) - 1 <= Len(s)
    /\ \A k \in 1..Len(p) : s[i + k - 1] = p[k]

\* The least i >= from where p occurs in s, or 0.
FindFrom(s, p, from) ==
    IF \E i \in from..(Len(s) + 1) : MatchAt(s, p, i)
    THEN CHOOSE i \in from..(Len(s) + 1) :
             MatchAt(s, p, i) /\ \A k \in from..(i-1) : ~MatchAt(s, p, k)
    ELSE 0

\* p in s
Contains(s, p) == FindFrom(s, p, 1) # 0

\* s.count(c) for a one-token c
Count(s, c) == Cardinality({i \in 1..Len(s) : s[i] = c})

IsSpace(c) == c \in {" ", "\n"}

\* s.strip()
RECURSIVE lstrip(_)
lstrip(s) == IF s # <<>> /\ IsSpace(Head(s)) THEN lstrip(Tail(s)) ELSE s

RECURSIVE rstrip(_)
rstrip(s) ==
    IF s # <<>> /\ IsSpace(s[Len(s)]) THEN rstrip(SubSeq(s, 1, Len(s) - 1)) ELSE s

strip(s) == rstrip(lstrip(s))

\* s.split(c): the pieces between the occurrences of the token c
RECURSIVE split(_, _)
split(s, c) ==
    LET j == FirstAt(s, c, 1) IN
    IF j = 0 THEN <<s>>
    ELSE <<SubSeq(s, 1, j - 1)>> \o split(SubSeq(s, j + 1, Len(s)), c)

\* ' '.join(s.split()): runs of whitespace become one space, none at the ends
RECURSIVE join_words(_, _)
join_words(s, pending) ==
    IF s = <<>> THEN <<>>
    ELSE IF IsSpace(Head(s)) THEN join_words(Tail(s), TRUE)
    ELSE (IF pending THEN <<" ">> ELSE <<>>) \o <<Head(s)>> \o join_words(Tail(s), FALSE)

collapse_ws(s) == join_words(lstrip(s), FALSE)

\* s.replace(old, new) for a one-token old and a one-token new
replace1(s, old, new) == [i \in 1..Len(s) |-> IF s[i] = old THEN new ELSE s[i]]

----------------------------------------------------------------------------
(* _clean_text, lines 138-150 *)

\* re.sub(r'\[([^\]]*)\]\([^\)]*\)', r'\1', text), from position i
RECURSIVE sub_links(_, _)
sub_links(s, i) ==
    IF i > Len(s) THEN <<>>
    ELSE LET j == IF s[i] = "[" THEN FirstAt(s, "]", i + 1) ELSE 0
             k == IF j # 0 /\ j + 1 <= Len(s) /\ s[j + 1] = "("
                  THEN FirstAt(s, ")", j + 2) ELSE 0
         IN IF k # 0 THEN SubSeq(s, i + 1, j - 1) \o sub_links(s, k + 1)
            ELSE <<s[i]>> \o sub_links(s, i + 1)

\* re.sub(r'\*\*([^\*]*)\*\*', r'\1', text), from position i
RECURSIVE sub_bold(_, _)
sub_bold(s, i) ==
    IF i > Len(s) THEN <<>>
    ELSE LET j == IF MatchAt(s, <<"*", "*">>, i) THEN FirstAt(s, "*", i + 2) ELSE 0
         IN IF j # 0 /\ MatchAt(s, <<"*", "*">>, j)
            THEN SubSeq(s, i + 2, j - 1) \o sub_bold(s, j + 2)
            ELSE <<s[i]>> \o sub_bold(s, i + 1)

\* re.sub(r'<[^>]+>', '', text), from position i
RECURSIVE sub_tags(_, _)
sub_tags(s, i) ==
    IF i > Len(s) THEN <<>>
    ELSE LET j == IF s[i] = "<" THEN FirstAt(s, ">", i + 1) ELSE 0
         IN IF j >= i + 2 THEN sub_tags(s, j + 1)
            ELSE <<s[i]>> \o sub_tags(s, i + 1)

BrTag == <<"<", "/", "br", ">">>

\* re.sub(r'</br>', ', ', text), from position i
RECURSIVE sub_br(_, _)
sub_br(s, i) ==
    IF i > Len(s) THEN <<>>
    ELSE IF MatchAt(s, BrTag, i) THEN <<",", " ">> \o sub_br(s, i + Len(BrTag))
    ELSE <<s[i]>> \o sub_br(s, i + 1)

\* The five statements of _clean_text, in the order of the code.
clean_step(n, text) ==
    CASE n = 1 -> sub_links(text, 1)
      [] n = 2 -> sub_bold(text, 1)
      [] n = 3 -> sub_tags(text, 1)
      [] n = 4 -> sub_br(text, 1)
      [] n = 5 -> strip(collapse_ws(text))

clean_text(text) ==
    clean_step(5, clean_step(4, clean_step(3, clean_step(2, clean_step(1, text)))))

----------------------------------------------------------------------------
(* _parse_table_section, lines 93-136 *)

Arrow == "↳"

\* The heading titles of lines 60, 68, 76 and 84, one token each (the emoji
\* that starts each title in the source is left out of the token's name).
TitleSE    == "Software Engineering Internship Roles"
TitleQuant == "Quantitative Finance Internship Roles"
TitleHW    == "Hardware Engineering Internship Roles"
TitleDS    == "Data Science, AI & Machine Learning"

SoftwareEngineering == <<"Software", " ", "Engineering">>
QuantitativeFinance == <<"Quantitative", " ", "Finance">>
HardwareEngineering == <<"Hardware", " ", "Engineering">>
DataScience == <<"Data", " ", "Science", ",", " ", "AI", " ", "&", " ", "ML">>

\* line 126: the f-string and its three replace calls
internship_id(company, role, location, category) ==
    replace1(replace1(replace1(
        company \o <<"_">> \o role \o <<"_">> \o location \o <<"_">> \o category,
        " ", "_"), "/", "_"), ",", "_")

\* lines 127-134: the dictionary appended to internships
internship(company, role, location, category, now) ==
    [id |-> internship_id(company, role, location, category),
     company |-> company, role |-> role, location |-> location,
     category |-> category, timestamp |-> now]

\* line 104: a table line that is not a separator row
is_table_line(line) == line # <<>> /\ Head(line) = "|" /\ ~Contains(line, <<"---">>)

\* line 105: the header row; 'Role' is in a line that holds the word or one
\* of the three titles that end in "Roles".
is_header_row(line) ==
    /\ Contains(line, <<"Company">>)
    /\ \E i \in 1..Len(line) : line[i] \in {"Role", TitleSE, TitleQuant, TitleHW}

\* The data-row test as it would be if it asked for five bounded fields.
is_data_row_with_five_fields(in_table, line) == in_table /\ Count(line, "|") >= 6

\* line 108: a data row
is_data_row(in_table, line) == in_table /\ Count(line, "|") >= 4

\* line 109
row_parts(line) == LET p == split(line, "|") IN [k \in 1..Len(p) |-> strip(p[k])]

\* line 119: the condition under which current_company is updated
updates_company(company, role) == company # <<>> /\ role # <<>>

\* lines 110-134: what a data row does to (current_company, internships)
data_row(st, line, category, now) ==
    LET parts == row_parts(line) IN
    IF Len(parts) >= 5
    THEN LET cell     == clean_text(parts[2])
             role     == clean_text(parts[3])
             location == clean_text(parts[4])
             arrow    == cell # <<>> /\ Head(cell) = Arrow
             company  == IF arrow THEN st.current_company ELSE cell
             cc       == IF ~arrow /\ updates_company(cell, role)
                         THEN cell ELSE st.current_company
         IN [st EXCEPT
               !.current_company = cc,
               !.internships =
                   IF company # <<>> /\ role # <<>> /\ strip(company) # <<>>
                   THEN Append(@, internship(company, role, location, category, now))
                   ELSE @]
    ELSE st

\* lines 102-134: one iteration of the loop over the lines of the section
section_line(st, raw, category, now) ==
    LET line == strip(raw) IN
    IF is_table_line(line)
    THEN IF is_header_row(line) THEN [st EXCEPT !.in_table = TRUE]
         ELSE IF is_data_row(st.in_table, line) THEN data_row(st, line, category, now)
         ELSE st
    ELSE st

\* lines 95-100: the locals before the loop
section_start == [in_table |-> FALSE, current_company |-> <<>>, internships |-> <<>>]

RECURSIVE section_loop(_, _, _, _, _)
section_loop(st, lines, i, category, now) ==
    IF i > Len(lines) THEN st
    ELSE section_loop(section_line(st, lines[i], category, now), lines, i + 1, category, now)

\* _parse_table_section(section, category)
parse_table_section(section, category, now) ==
    section_loop(section_start, split(section, "\n"), 1, category, now).internships

----------------------------------------------------------------------------
(* parse_internships, lines 55-91 *)

\* The four (pattern, category) pairs, in the order of the code.
Headings ==
    << [marker |-> <<"#", "#", " ", TitleSE>>,    category |-> SoftwareEngineering],
       [marker |-> <<"#", "#", " ", TitleQuant>>, category |-> QuantitativeFinance],
       [marker |-> <<"#", "#", " ", TitleHW>>,    category |-> HardwareEngineering],
       [marker |-> <<"#", "#", " ", TitleDS>>,    category |-> DataScience] >>

\* Where the lazy .*? of the pattern stops: just before the first "##" at or
\* after position from, or at the end of the text ((?=##|\Z) with re.DOTALL).
section_end(text, from) ==
    LET q == FindFrom(text, <<"#", "#">>, from) IN
    IF q = 0 THEN Len(text) ELSE q - 1

\* re.search(marker + r'.*?(?=##|\Z)', content, re.DOTALL)
section_match(text, marker) ==
    LET p == FindFrom(text, marker, 1) IN
    IF p = 0 THEN [found |-> FALSE, text |-> <<>>]
    ELSE [found |-> TRUE,
          text |-> SubSeq(text, p, section_end(text, p + Len(marker)))]

\* One of the four blocks of parse_internships: search, and extend internships.
parse_block(text, n, now) ==
    LET m == section_match(text, Headings[n].marker) IN
    IF m.found THEN parse_table_section(m.text, Headings[n].category, now) ELSE <<>>

parse_internships(text, now) ==
    parse_block(text, 1, now) \o parse_block(text, 2, now)
        \o parse_block(text, 3, now) \o parse_block(text, 4, now)

----------------------------------------------------------------------------
(* load_previous_internships, save_internships, send_email and             *)
(* check_for_new_internships, lines 152-205 and 263-296                    *)

Range(s) == {s[i] : i \in 1..Len(s)}

ids_of(internships) == [i \in 1..Len(internships) |-> internships[i].id]

\* The file previous_internships.json: absent, a JSON document written by
\* save_internships, or left truncated by a write that failed.
NoFile      == [kind |-> "absent"]
CorruptFile == [kind |-> "corrupt"]

\* lines 154-161
load_previous_internships(file) ==
    IF file.kind = "json" THEN Range(file.data.internship_ids) ELSE {}

\* lines 165-169: the dictionary save_internships dumps
saved_data(internships, now) ==
    [last_updated |-> now, internship_ids |-> ids_of(internships),
     internships |-> internships]

\* save_internships as it would be if it merged the new ids into the old file.
file_after_save_merging(file, internships, now, io) ==
    CASE io = "ok" ->
           [kind |-> "json",
            data |-> [saved_data(internships, now) EXCEPT
                        !.internship_ids =
                            (IF file.kind = "json" THEN file.data.internship_ids ELSE <<>>)
                                \o @]]
      [] io = "open_fails"  -> file
      [] io = "write_fails" -> CorruptFile

\* lines 171-175: the file after save_internships; open(..., 'w') truncates,
\* so a failure while writing leaves a file that is no JSON document.
file_after_save(file, internships, now, io) ==
    CASE io = "ok"         -> [kind |-> "json", data |-> saved_data(internships, now)]
      [] io = "open_fails"  -> file
      [] io = "write_fails" -> CorruptFile

\* The diff as it would be if it ignored the previously seen ids.
new_of_ignoring_previous(current, previous) == current

\* lines 281-283
new_of(current, previous) ==
    LET current_ids == Range(ids_of(current))
        new_ids     == current_ids \ previous
        IsNew(r)    == r.id \in new_ids
    IN SelectSeq(current, IsNew)

\* send_email as it would be without its except clause.
send_email_outcome_propagating(transport) ==
    [sent |-> transport = "ok", logged |-> FALSE, raised |-> transport # "ok"]

\* lines 198-205: what send_email does with the outcome of the transport
send_email_outcome(transport) ==
    [sent |-> transport = "ok", logged |-> transport # "ok", raised |-> FALSE]

\* The order of statements without the early return of line 271.
after_never_aborting(stmt, empty, has_new) ==
    CASE stmt = "fetch" -> "check"
      [] stmt = "check" -> "parse"
      [] stmt = "parse" -> "load"
      [] stmt = "load"  -> "diff"
      [] stmt = "diff"  -> IF has_new THEN "send" ELSE "save"
      [] stmt = "send"  -> "save"
      [] stmt = "save"  -> "done"

\* The order of statements with the save moved before the send.
after_persist_first(stmt, empty, has_new) ==
    CASE stmt = "fetch" -> "check"
      [] stmt = "check" -> IF empty THEN "done" ELSE "parse"
      [] stmt = "parse" -> "load"
      [] stmt = "load"  -> "diff"
      [] stmt = "diff"  -> "save"
      [] stmt = "save"  -> IF has_new THEN "send" ELSE "done"
      [] stmt = "send"  -> "done"

\* The statement that follows statement stmt of check_for_new_internships;
\* empty is "not content" (line 269), has_new is "new_internships" (line 285).
after(stmt, empty, has_new) ==
    CASE stmt = "fetch" -> "check"
      [] stmt = "check" -> IF empty THEN "done" ELSE "parse"
      [] stmt = "parse" -> "load"
      [] stmt = "load"  -> "diff"
      [] stmt = "diff"  -> IF has_new THEN "send" ELSE "save"
      [] stmt = "send"  -> "save"
      [] stmt = "save"  -> "done"

----------------------------------------------------------------------------
(* The documents the fetch may return *)

RECURSIVE join_lines(_)
join_lines(lines) ==
    IF lines = <<>> THEN <<>>
    ELSE IF Len(lines) = 1 THEN lines[1]
    ELSE lines[1] \o <<"\n">> \o join_lines(Tail(lines))

\* "| c1 | c2 | ... |"
RECURSIVE table_cells(_)
table_cells(cells) ==
    IF cells = <<>> THEN <<>>
    ELSE <<" ">> \o Head(cells) \o <<" ", "|">> \o table_cells(Tail(cells))

TableRow(cells) == <<"|">> \o table_cells(cells)

HeadingLine(n) == Headings[n].marker
HeaderRow == TableRow(<< <<"Company">>, <<"Role">>, <<"Location">>, <<"Application">>, <<"Age">> >>)
SeparatorRow == TableRow(<< <<"---">>, <<"---">>, <<"---">>, <<"---">>, <<"---">> >>)
Link(label) == <<"[">> \o label \o <<"]", "(", "url", ")">>
Bold(text) == <<"*", "*">> \o text \o <<"*", "*">>

RowAcmeSWE == TableRow(<< Bold(Link(<<"Acme">>)), <<"SWE", " ", "Intern">>, <<"NYC">>,
                          <<"<", "a", ">", "Apply", "<", "/", "a", ">">>, <<"1d">> >>)
RowArrowML == TableRow(<< <<Arrow>>, <<"ML", " ", "Intern">>, <<"SF">> \o BrTag \o <<"LA">>,
                          <<"Apply">>, <<"2d">> >>)
RowBetaQR  == TableRow(<< Bold(<<"Beta">>), <<"Quant", "/", "Research">>, <<"Chicago", ",", " ", "IL">>,
                          <<"Apply">>, <<"3d">> >>)

DocA == join_lines(<< HeadingLine(1), <<>>, HeaderRow, SeparatorRow, RowAcmeSWE, RowArrowML >>)
DocB == join_lines(<< <<"#", " ", "Internships">>, HeadingLine(1), HeaderRow, SeparatorRow,
                      RowAcmeSWE, <<>>, HeadingLine(2), HeaderRow, SeparatorRow, RowBetaQR >>)
\* The same listing on two rows.
DocTwice == join_lines(<< HeadingLine(2), HeaderRow, SeparatorRow, RowBetaQR, RowBetaQR >>)
DocNone == <<"No", " ", "listings", "\n">>
DocEmpty == <<>>

Documents == {DocA, DocB, DocTwice, DocNone, DocEmpty}

\* What requests.get and raise_for_status can do (lines 48-49).
Responses ==
    {[error |-> "none", text |-> d] : d \in Documents}
        \cup {[error |-> e, text |-> <<>>] : e \in {"network", "timeout", "status"}}

\* lines 47-53
fetch_repository_data(response) ==
    IF response.error = "none" THEN response.text ELSE <<>>

----------------------------------------------------------------------------
(* check_for_new_internships as a state machine, one action per statement  *)

MaxRuns == 3

Unused == "unused"

NoRun == [ran |-> FALSE]

NewRun(file) ==
    [fetch |-> "none", send |-> "none", save |-> "none", steps |-> <<>>,
     logged |-> {}, file_before |-> file]

ProbesUnused == ct = Unused /\ ps = Unused /\ dp = Unused /\ idp = Unused

PipelineInit ==
    /\ pc = "idle"
    /\ content = <<>>
    /\ current_internships = <<>>
    /\ previous_ids = {}
    /\ new_internships = <<>>
    /\ data_file = NoFile
    /\ run = NewRun(NoFile)
    /\ last = NoRun
    /\ last_saved = [ids |-> <<>>, prev_ids |-> <<>>, intact |-> TRUE]
    /\ runs = 0

pipeline == <<pc, content, current_internships, previous_ids, new_internships,
              data_file, run, last, last_saved, runs>>
probes == <<ct, ps, dp, idp>>

Init == ProbesUnused /\ PipelineInit

\* main(): the scheduler starts the next run once the previous one has ended.
Start ==
    /\ pc \in {"idle", "done", "raised"}
    /\ runs < MaxRuns
    /\ runs' = runs + 1
    /\ pc' = "fetch"
    /\ last' = IF pc = "idle" THEN last
               ELSE [ran |-> TRUE, run |-> run, content |-> content,
                     current |-> current_internships, new |-> new_internships,
                     file_after |-> data_file, raised |-> pc = "raised"]
    /\ run' = NewRun(data_file)
    /\ content' = <<>>
    /\ current_internships' = <<>>
    /\ previous_ids' = {}
    /\ new_internships' = <<>>
    /\ UNCHANGED <<data_file, last_saved, probes>>

\* line 268
Fetch ==
    /\ pc = "fetch"
    /\ \E response \in Responses :
         /\ content' = fetch_repository_data(response)
         /\ run' = [run EXCEPT
                      !.fetch = IF response.error = "none" THEN "ok" ELSE "failed",
                      !.steps = Append(@, "fetch"),
                      !.logged = IF response.error = "none" THEN @ ELSE @ \cup {"fetch"}]
    /\ pc' = after("fetch", FALSE, FALSE)
    /\ UNCHANGED <<current_internships, previous_ids, new_internships, data_file,
                   last, last_saved, runs, probes>>

\* lines 269-271
Check ==
    /\ pc = "check"
    /\ pc' = after("check", content = <<>>, FALSE)
    /\ run' = [run EXCEPT !.logged = IF content = <<>> THEN @ \cup {"abort"} ELSE @]
    /\ UNCHANGED <<content, current_internships, previous_ids, new_internships,
                   data_file, last, last_saved, runs, probes>>

\* lines 274-275
Parse ==
    /\ pc = "parse"
    /\ current_internships' = parse_internships(content, runs)
    /\ run' = [run EXCEPT !.steps = Append(@, "parse")]
    /\ pc' = after("parse", FALSE, FALSE)
    /\ UNCHANGED <<content, previous_ids, new_internships, data_file, last,
                   last_saved, runs, probes>>

\* line 278
Load ==
    /\ pc = "load"
    /\ previous_ids' = load_previous_internships(data_file)
    /\ run' = [run EXCEPT !.steps = Append(@, "load"),
                          !.logged = IF data_file.kind = "corrupt"
                                     THEN @ \cup {"load"} ELSE @]
    /\ pc' = after("load", FALSE, FALSE)
    /\ UNCHANGED <<content, current_internships, new_internships, data_file, last,
                   last_saved, runs, probes>>

\* lines 281-285
Diff ==
    /\ pc = "diff"
    /\ new_internships' = new_of(current_internships, previous_ids)
    /\ run' = [run EXCEPT !.steps = Append(@, "diff")]
    /\ pc' = after("diff", FALSE, new_internships' # <<>>)
    /\ UNCHANGED <<content, current_internships, previous_ids, data_file, last,
                   last_saved, runs, probes>>

\* line 289: send_email(new_internships)
Send ==
    /\ pc = "send"
    /\ \E transport \in {"ok", "auth_error", "connection_error"} :
         LET o == send_email_outcome(transport) IN
         /\ run' = [run EXCEPT
                      !.send = IF o.sent THEN "ok" ELSE "failed",
                      !.steps = Append(@, "send"),
                      !.logged = IF o.logged THEN @ \cup {"send"} ELSE @]
         /\ pc' = IF o.raised THEN "raised"
                  ELSE after("send", FALSE, new_internships # <<>>)
    /\ UNCHANGED <<content, current_internships, previous_ids, new_internships,
                   data_file, last, last_saved, runs, probes>>

\* line 294: save_internships(current_internships)
Save ==
    /\ pc = "save"
    /\ \E io \in {"ok", "open_fails", "write_fails"} :
         /\ data_file' = file_after_save(data_file, current_internships, runs, io)
         /\ run' = [run EXCEPT
                      !.save = IF io = "ok" THEN "ok" ELSE "failed",
                      !.steps = Append(@, "save"),
                      !.logged = IF io = "ok" THEN @ ELSE @ \cup {"save"}]
         /\ last_saved' =
              CASE io = "ok"          -> [ids |-> ids_of(current_internships),
                                          prev_ids |-> last_saved.ids, intact |-> TRUE]
                [] io = "open_fails"  -> last_saved
                [] io = "write_fails" -> [last_saved EXCEPT !.intact = FALSE]
    /\ pc' = after("save", FALSE, new_internships # <<>>)
    /\ UNCHANGED <<content, current_internships, previous_ids, new_internships,
                   last, runs, probes>>

Next == Start \/ Fetch \/ Check \/ Parse \/ Load \/ Diff \/ Send \/ Save

Spec == Init /\ [][Next]_vars


----------------------------------------------------------------------------
(* Claims about check_for_new_internships (specification Spec) *)

IsPrefix(s, t) == Len(s) <= Len(t) /\ SubSeq(t, 1, Len(s)) = s

Finished == pc \in {"done", "raised"}

FileIds(file) == IF file.kind = "json" THEN file.data.internship_ids ELSE <<>>

\* The previous run fetched a non-empty document with nothing persisted before it.
FirstRunOnEmptyState ==
    /\ last.ran
    /\ last.run.fetch = "ok"
    /\ last.content # <<>>
    /\ load_previous_internships(last.run.file_before) = {}

\* The run in progress fetched the document the previous run fetched.
SameDocumentAgain ==
    /\ last.ran
    /\ run.fetch = "ok"
    /\ content = last.content

C2_FetchFailureAborts ==
    run.fetch = "failed" =>
        /\ run.steps = <<"fetch">>
        /\ pc \in {"check", "done"}
        /\ run.send = "none"
        /\ run.save = "none"
        /\ data_file = run.file_before
        /\ "fetch" \in run.logged

\* C2 witness: a run whose fetch failed has ended, with ids persisted earlier.
C2_Witness ==
    /\ pc = "done"
    /\ run.fetch = "failed"
    /\ data_file.kind = "json"
    /\ data_file.data.internship_ids # <<>>

NotSeenIn(ids) ==
    LET Unseen(r) == r.id \notin ids IN SelectSeq(current_internships, Unseen)

\* C3, first sentence: after a run whose save succeeded the persisted ids are
\* exactly the ids of the records parsed in that run.
SavedWholesale ==
    pc = "done" /\ run.save = "ok" =>
        /\ data_file.kind = "json"
        /\ FileIds(data_file) = ids_of(current_internships)

----------------------------------------------------------------------------
(* _clean_text, statement by statement (specification SpecClean) *)

MaxFrags == 3

Words == {"Acme", "Remote"}

CleanFragments ==
    { <<"Acme">>, <<"Remote">>, <<" ">>, <<"*", "*">>, <<"[">>, <<"]", "(", "url", ")">>,
      BrTag, <<"<", "br", ">">>, <<"<">>, <<">">> }

RECURSIVE Concats(_, _)
Concats(S, n) ==
    IF n = 0 THEN {<<>>}
    ELSE LET shorter == Concats(S, n - 1) IN
         shorter \cup {x \o f : x \in shorter, f \in S}

\* "**[Acme](http://x)**</br>Remote"
MarkedUpExample == Bold(Link(<<"Acme">>)) \o BrTag \o <<"Remote">>

CleanInputs == Concats(CleanFragments, MaxFrags) \cup {MarkedUpExample}

InitClean ==
    /\ ct \in {[raw |-> x, text |-> x, step |-> 0] : x \in CleanInputs}
    /\ ps = Unused /\ dp = Unused /\ idp = Unused
    /\ PipelineInit

\* One statement of _clean_text (lines 141, 143, 145, 147, 149).
CleanStatement ==
    /\ ct.step < 5
    /\ ct' = [ct EXCEPT !.step = @ + 1, !.text = clean_step(ct.step + 1, ct.text)]
    /\ UNCHANGED <<ps, dp, idp, pipeline>>

SpecClean == InitClean /\ [][CleanStatement]_vars

\* C6: wherever a </br> tag stands between two words of the input, the output
\* of _clean_text holds the two words joined by ", ", no tag is left in the
\* output, and the marked-up example comes out as "Acme, Remote".
C6_BreakBecomesSeparator ==
    ct.step = 5 =>
        /\ \A i \in 2..(Len(ct.raw) - Len(BrTag)) :
              ( /\ MatchAt(ct.raw, BrTag, i)
                /\ ct.raw[i - 1] \in Words
                /\ ct.raw[i + Len(BrTag)] \in Words
                /\ \A k \in 1..Len(ct.raw) : ct.raw[k] \in Words \/ k \in i..(i + Len(BrTag) - 1) )
              => ct.text = <<ct.raw[i - 1], ",", " ", ct.raw[i + Len(BrTag)]>>
        /\ ~Contains(ct.text, BrTag)
        /\ ct.raw = MarkedUpExample => ct.text = <<"Acme", ",", " ", "Remote">>

----------------------------------------------------------------------------
(* _parse_table_section, line by line (specification SpecParse) *)

MaxRows == 3

SectionLines ==
    { TableRow(<< <<"Company">>, <<"Role">>, <<"Location">> >>),
      TableRow(<< <<"---">>, <<"---">>, <<"---">> >>),
      RowAcmeSWE,
      TableRow(<< <<"Beta">>, <<"QA">>, <<"LA">> >>),
      TableRow(<< <<"Beta">>, <<"QA">> >>),
      <<"|", " ", "Delta", " ", "|", " ", "Dev", " ", "|", " ", "LA">>,
      TableRow(<< <<Arrow>>, <<"ML">>, <<"SF">> >>),
      TableRow(<< <<Arrow>>, <<"ML">> >>),
      TableRow(<< <<"Gamma">>, <<>>, <<"NYC">> >>),
      TableRow(<< <<>>, <<"Ops">>, <<"NYC">> >>),
      <<"Some", " ", "text">> }

RECURSIVE SeqsUpTo(_, _)
SeqsUpTo(S, n) ==
    IF n = 0 THEN {<<>>}
    ELSE LET shorter == SeqsUpTo(S, n - 1) IN
         shorter \cup {Append(x, e) : x \in shorter, e \in S}

InitParse ==
    /\ ps \in {[lines |-> ls, category |-> SoftwareEngineering, i |-> 1,
                st |-> section_start, before |-> section_start, returned |-> FALSE]
               : ls \in SeqsUpTo(SectionLines, MaxRows) \ {<<>>}}
    /\ ct = Unused /\ dp = Unused /\ idp = Unused
    /\ PipelineInit

\* lines 102-134: one iteration of the loop
SectionLine ==
    /\ ps.i <= Len(ps.lines)
    /\ ps' = [ps EXCEPT !.i = @ + 1,
                        !.before = ps.st,
                        !.st = section_line(ps.st, ps.lines[ps.i], ps.category, 1)]
    /\ UNCHANGED <<ct, dp, idp, pipeline>>

\* line 136
SectionReturn ==
    /\ ps.i > Len(ps.lines)
    /\ ~ps.returned
    /\ ps' = [ps EXCEPT !.returned = TRUE]
    /\ UNCHANGED <<ct, dp, idp, pipeline>>

NextParse == SectionLine \/ SectionReturn

SpecParse == InitParse /\ [][NextParse]_vars

\* The line the last iteration looked at, stripped.
LastLine == strip(ps.lines[ps.i - 1])

\* The number of fields of a table line that have a delimiter on both sides.
BoundedFields(line) == Len(split(line, "|")) - 2

\* The k-th delimiter-bounded field of a table line, normalized.
Field(line, k) == clean_text(strip(split(line, "|")[k + 1]))

\* The last iteration looked at a table line after the header row that is
\* neither a separator row nor a header row.
RowAfterHeader ==
    /\ ps.i > 1
    /\ ps.before.in_table
    /\ is_table_line(LastLine)
    /\ ~is_header_row(LastLine)

\* C7 as stated: a row after the header with fewer than 5 delimiter-bounded
\* fields (3, for one) is skipped: it adds no record and does not touch the
\* carried-over company.
C7_FewerThanFiveFieldsSkipped ==
    RowAfterHeader /\ BoundedFields(LastLine) < 5 => ps.st = ps.before

\* C7 amended: a row after the header with fewer than 3 delimiter-bounded
\* fields (fewer than 4 delimiters) is skipped, adding no record and leaving
\* the carried-over company alone; a row with 3 or more is a data row: when
\* its role is non-empty and its company is non-empty and no arrow, or is an
\* arrow with a non-empty carried-over company, it adds exactly one record
\* with that company and its second and third fields.
C7_FewerThanThreeFieldsSkipped ==
    /\ RowAfterHeader /\ BoundedFields(LastLine) < 3 => ps.st = ps.before
    /\ ( /\ RowAfterHeader
         /\ BoundedFields(LastLine) >= 3
         /\ Field(LastLine, 1) # <<>>
         /\ Field(LastLine, 2) # <<>>
         /\ Head(Field(LastLine, 1)) = Arrow => ps.before.current_company # <<>> )
       => /\ Len(ps.st.internships) = Len(ps.before.internships) + 1
          /\ LET r == ps.st.internships[Len(ps.st.internships)] IN
                /\ r.company = IF Head(Field(LastLine, 1)) = Arrow
                               THEN ps.before.current_company
                               ELSE Field(LastLine, 1)
                /\ r.role = Field(LastLine, 2)
                /\ r.location = Field(LastLine, 3)
                /\ r.category = ps.category
          /\ SubSeq(ps.st.internships, 1, Len(ps.before.internships))
                = ps.before.internships

\* C7 witness: a row of exactly 3 delimiter-bounded fields after the header
\* has added a record.
C7_Witness ==
    /\ RowAfterHeader
    /\ BoundedFields(LastLine) = 3
    /\ Len(ps.st.internships) = Len(ps.before.internships) + 1

\* The carried-over company after the first n lines as C9 describes it: empty
\* at first, replaced by the company of every data row whose company is
\* non-empty and no arrow, kept by every other line.
RECURSIVE ClaimedCompany(_, _)
ClaimedCompany(lines, n) ==
    IF n = 0 THEN <<>>
    ELSE LET line == strip(lines[n])
             seen == \E k \in 1..(n - 1) :
                        is_table_line(strip(lines[k])) /\ is_header_row(strip(lines[k]))
         IN IF /\ is_table_line(line) /\ ~is_header_row(line)
               /\ is_data_row(seen, line)
               /\ Field(line, 1) # <<>>
               /\ Head(Field(line, 1)) # Arrow
            THEN Field(line, 1)
            ELSE ClaimedCompany(lines, n - 1)

\* C9: the carried-over company is, after every line, the company of the most
\* recent data row of the section whose company is non-empty and no arrow
\* (whether or not that row had a role), and empty when there is none; an
\* arrow row with a role adds a record under that company, or none when the
\* carried-over company is empty.
C9_CarryOverFollowsCompanyRows ==
    /\ ps.st.current_company = ClaimedCompany(ps.lines, ps.i - 1)
    /\ ( /\ RowAfterHeader
         /\ is_data_row(TRUE, LastLine)
         /\ Field(LastLine, 1) # <<>>
         /\ Head(Field(LastLine, 1)) = Arrow
         /\ Field(LastLine, 2) # <<>> )
       => IF ClaimedCompany(ps.lines, ps.i - 2) = <<>>
          THEN ps.st.internships = ps.before.internships
          ELSE /\ Len(ps.st.internships) = Len(ps.before.internships) + 1
               /\ ps.st.internships[Len(ps.st.internships)].company
                     = ClaimedCompany(ps.lines, ps.i - 2)


----------------------------------------------------------------------------
(* Record ids (specification SpecId) *)

CompanyCells ==
    { <<"Acme">>, <<"Acme", " ", "Labs">>, <<"Acme", "/", "Labs">>, Bold(<<"Acme", "_", "Labs">>) }
RoleCells == { <<"SWE">>, <<"Labs", "_", "SWE">>, <<"SWE", ",", "ML">> }
LocationCells == { <<"NYC">>, <<"SF", ",", " ", "CA">>, <<>> }
Clock == {1, 2}

RowInputs ==
    [company : CompanyCells, role : RoleCells, location : LocationCells, heading : {1, 2}]

InitId ==
    /\ idp \in {[rows |-> <<a, b>>, now |-> <<1, t>>, internships |-> <<>>]
                : a \in RowInputs, b \in RowInputs, t \in Clock}
    /\ ct = Unused /\ ps = Unused /\ dp = Unused
    /\ PipelineInit

\* lines 111-134 for the next of the two rows
BuildRecord ==
    /\ Len(idp.internships) < Len(idp.rows)
    /\ LET k   == Len(idp.internships) + 1
           row == idp.rows[k]
       IN idp' = [idp EXCEPT !.internships =
                     Append(@, internship(clean_text(row.company), clean_text(row.role),
                                          clean_text(row.location),
                                          Headings[row.heading].category, idp.now[k]))]
    /\ UNCHANGED <<ct, ps, dp, pipeline>>

SpecId == InitId /\ [][BuildRecord]_vars

Listing(r) == <<r.company, r.role, r.location, r.category>>

\* C8: two records with the same company, role, location and category have
\* the same id whatever their timestamps, and two records that differ in any
\* of the four have different ids.
C8_IdsDistinguishListings ==
    Len(idp.internships) = 2 =>
        LET a == idp.internships[1]
            b == idp.internships[2]
        IN /\ Listing(a) = Listing(b) => a.id = b.id
           /\ Listing(a) # Listing(b) => a.id # b.id

----------------------------------------------------------------------------
(* parse_internships, block by block (specification SpecDoc) *)

MaxDocBlocks == 3

ShortHeader == TableRow(<< <<"Company">>, <<"Role">>, <<"Location">> >>)

DocBlocks ==
    {join_lines(<<HeadingLine(n), ShortHeader>>) : n \in 1..4}
        \cup { TableRow(<< <<"Acme">>, <<"SWE">>, <<"NYC">> >>),
               TableRow(<< <<"Beta">>, <<"QA">>, <<"LA">> >>),
               TableRow(<< <<"C", "#", "#">>, <<"Dev">>, <<"SF">> >>),
               <<"#", "#", "#", " ", "Sub">>,
               <<"#", "#", " ", "Legend">> }

InitDoc ==
    /\ dp \in {[content |-> join_lines(d), n |-> 0, internships |-> <<>>,
                sections |-> <<>>, returned |-> FALSE]
               : d \in SeqsUpTo(DocBlocks, MaxDocBlocks)}
    /\ ct = Unused /\ ps = Unused /\ idp = Unused
    /\ PipelineInit

\* One of the four blocks of lines 59-89: search the section, parse it.
SearchSection ==
    /\ dp.n < 4
    /\ LET m == section_match(dp.content, Headings[dp.n + 1].marker) IN
       dp' = [dp EXCEPT !.n = @ + 1,
                        !.sections = Append(@, m),
                        !.internships = @ \o parse_block(dp.content, dp.n + 1, 1)]
    /\ UNCHANGED <<ct, ps, idp, pipeline>>

\* line 91
ReturnInternships ==
    /\ dp.n = 4
    /\ ~dp.returned
    /\ dp' = [dp EXCEPT !.returned = TRUE]
    /\ UNCHANGED <<ct, ps, idp, pipeline>>

NextDoc == SearchSection \/ ReturnInternships

SpecDoc == InitDoc /\ [][NextDoc]_vars

\* Whether a level-2 heading line ("## ...") starts at position q of text.
Level2HeadingAt(text, q) ==
    /\ MatchAt(text, <<"#", "#", " ">>, q)
    /\ q = 1 \/ text[q - 1] = "\n"

\* The section C10 describes: from the first occurrence of the marker up to,
\* not including, the next level-2 heading line, or to the end of the text.
ClaimedSection(text, marker) ==
    LET p == FindFrom(text, marker, 1)
        later == {q \in (p + Len(marker))..Len(text) : Level2HeadingAt(text, q)}
    IN IF p = 0 THEN [found |-> FALSE, text |-> <<>>]
       ELSE [found |-> TRUE,
             text |-> SubSeq(text, p,
                             IF later = {} THEN Len(text)
                             ELSE (CHOOSE q \in later : \A r \in later : q <= r) - 1)]

RECURSIVE ClaimedRecords(_, _)
ClaimedRecords(text, n) ==
    IF n = 0 THEN <<>>
    ELSE LET m == ClaimedSection(text, Headings[n].marker) IN
         ClaimedRecords(text, n - 1)
            \o (IF m.found THEN parse_table_section(m.text, Headings[n].category, 1)
                ELSE <<>>)

\* C10: each section captured runs from its heading to the next level-2
\* heading line or the end of the document, so a "###" sub-heading or a "##"
\* inside a cell does not end it and the rows after it yield records: the
\* records returned are those of the rows of the sections so delimited.
C10_SectionRunsToNextLevel2Heading ==
    dp.returned => dp.internships = ClaimedRecords(dp.content, 4)

====
